---------------------------- MODULE Spec2Model ----------------------------
(***************************************************************************)
(* Model of the fee-cost projection of investments.py and of the           *)
(* InvestmentCalculator helper class of test_investments.py.               *)
(*                                                                         *)
(* Numbers.  The program computes with Python numbers.  The model keeps    *)
(* every value as an exact rational (sign, numerator, denominator), the    *)
(* numerator and the denominator being naturals of arbitrary size held as  *)
(* little-endian sequences of limbs, so that what is checked is the        *)
(* arithmetic the source writes down (+, -, *, ** and the formatting to    *)
(* cents) at any magnitude: 2,000,000 * 1.05^15 has 37 digits over 10^30.  *)
(* The rounding of IEEE-754 doubles to 53 bits is not part of the model:   *)
(* statements about values are statements about the exact results of the   *)
(* source's expressions.                                                   *)
(***************************************************************************)
EXTENDS Integers, Sequences, FiniteSets, TLC

(***************************************************************************)
(* Naturals of arbitrary size: <<>> is zero, limb 1 is the least           *)
(* significant, the last limb is never 0.                                  *)
(***************************************************************************)
Base == 10000

RECURSIVE NatOf(_)
NatOf(n) ==
    IF n = 0 THEN <<>> ELSE <<n % Base>> \o NatOf(n \div Base)

Limb(a, i) ==
    IF i <= Len(a) THEN a[i] ELSE 0

RECURSIVE NatTrim(_)
NatTrim(a) ==
    IF a = <<>> THEN a
    ELSE IF a[Len(a)] = 0 THEN NatTrim(SubSeq(a, 1, Len(a) - 1))
    ELSE a

RECURSIVE AddFrom(_, _, _, _)
AddFrom(a, b, i, carry) ==
    IF i > Len(a) /\ i > Len(b)
    THEN (IF carry = 0 THEN <<>> ELSE <<carry>>)
    ELSE LET s == Limb(a, i) + Limb(b, i) + carry
         IN  <<s % Base>> \o AddFrom(a, b, i + 1, s \div Base)

NatAdd(a, b) ==
    AddFrom(a, b, 1, 0)

RECURSIVE SubFrom(_, _, _, _)
SubFrom(a, b, i, borrow) ==
    IF i > Len(a) THEN <<>>
    ELSE LET d == a[i] - Limb(b, i) - borrow
         IN  <<IF d < 0 THEN d + Base ELSE d>>
                 \o SubFrom(a, b, i + 1, IF d < 0 THEN 1 ELSE 0)

\* a - b for a >= b
NatSub(a, b) ==
    NatTrim(SubFrom(a, b, 1, 0))

RECURSIVE CmpFrom(_, _, _)
CmpFrom(a, b, i) ==
    IF i = 0 THEN 0
    ELSE IF a[i] > b[i] THEN 1
    ELSE IF a[i] < b[i] THEN -1
    ELSE CmpFrom(a, b, i - 1)

\* -1, 0 or 1 as a < b, a = b, a > b
NatCmp(a, b) ==
    IF Len(a) > Len(b) THEN 1
    ELSE IF Len(a) < Len(b) THEN -1
    ELSE CmpFrom(a, b, Len(a))

RECURSIVE MulLimbFrom(_, _, _, _)
MulLimbFrom(a, k, i, carry) ==
    IF i > Len(a)
    THEN (IF carry = 0 THEN <<>> ELSE <<carry>>)
    ELSE LET p == a[i] * k + carry
         IN  <<p % Base>> \o MulLimbFrom(a, k, i + 1, p \div Base)

\* a * k for one limb k in 0 .. Base-1
NatMulLimb(a, k) ==
    IF k = 0 THEN <<>> ELSE MulLimbFrom(a, k, 1, 0)

NatShift(a) ==
    IF a = <<>> THEN a ELSE <<0>> \o a

RECURSIVE NatMul(_, _)
NatMul(a, b) ==
    IF b = <<>> THEN <<>>
    ELSE NatAdd(NatMulLimb(a, b[1]), NatShift(NatMul(a, Tail(b))))

\* the largest q in lo .. hi with b * q <= r
RECURSIVE QuotLimb(_, _, _, _)
QuotLimb(r, b, lo, hi) ==
    IF lo = hi THEN lo
    ELSE LET mid == (lo + hi + 1) \div 2
         IN  IF NatCmp(NatMulLimb(b, mid), r) <= 0
             THEN QuotLimb(r, b, mid, hi)
             ELSE QuotLimb(r, b, lo, mid - 1)

RECURSIVE DivFrom(_, _, _, _)
DivFrom(a, b, i, rem) ==
    IF i = 0 THEN [q |-> <<>>, r |-> rem]
    ELSE LET cur  == NatTrim(<<a[i]>> \o rem)
             d    == QuotLimb(cur, b, 0, Base - 1)
             rest == DivFrom(a, b, i - 1, NatSub(cur, NatMulLimb(b, d)))
         IN  [q |-> rest.q \o <<d>>, r |-> rest.r]

\* quotient and remainder of a by b, b not zero
NatDivMod(a, b) ==
    LET res == DivFrom(a, b, Len(a), <<>>)
    IN  [q |-> NatTrim(res.q), r |-> res.r]

(***************************************************************************)
(* Exact rationals: neg is the sign (never set on zero), num and den are   *)
(* naturals, den is not zero.  A value has many representations (1/2 and   *)
(* 50/100); RatCmp compares values.                                        *)
(***************************************************************************)
NatOne == <<1>>

Rat(neg, num, den) ==
    [neg |-> neg /\ num # <<>>, num |-> num, den |-> den]

\* the number n / d for integers n and d > 0
RatOf(n, d) ==
    Rat(n < 0, NatOf(IF n < 0 THEN -n ELSE n), NatOf(d))

RatInt(n) ==
    RatOf(n, 1)

RatNeg(a) ==
    Rat(~a.neg, a.num, a.den)

RatMul(a, b) ==
    Rat(a.neg # b.neg, NatMul(a.num, b.num), NatMul(a.den, b.den))

\* x/d + y/d for signed numerators
SameDenAdd(aneg, x, bneg, y, d) ==
    IF aneg = bneg THEN Rat(aneg, NatAdd(x, y), d)
    ELSE IF NatCmp(x, y) >= 0 THEN Rat(aneg, NatSub(x, y), d)
    ELSE Rat(bneg, NatSub(y, x), d)

RatAdd(a, b) ==
    IF a.den = b.den
    THEN SameDenAdd(a.neg, a.num, b.neg, b.num, a.den)
    ELSE SameDenAdd(a.neg, NatMul(a.num, b.den),
                    b.neg, NatMul(b.num, a.den), NatMul(a.den, b.den))

RatSub(a, b) ==
    RatAdd(a, RatNeg(b))

RatIsZero(a) ==
    a.num = <<>>

\* -1, 0 or 1 as a < b, a = b, a > b
RatCmp(a, b) ==
    LET d == RatSub(a, b)
    IN  IF RatIsZero(d) THEN 0 ELSE IF d.neg THEN -1 ELSE 1

RatEq(a, b) ==
    RatCmp(a, b) = 0

RatLeq(a, b) ==
    RatCmp(a, b) <= 0

\* 1 / a for a not zero
RatInv(a) ==
    Rat(a.neg, a.den, a.num)


(***************************************************************************)
(* The operator ** of investments.py line 8 and test_investments.py line   *)
(* 16, with an integer exponent: a negative exponent is the reciprocal of  *)
(* the positive power, and a zero base with a negative exponent raises     *)
(* ZeroDivisionError.                                                      *)
(***************************************************************************)
RECURSIVE PowNat(_, _)
PowNat(b, n) ==
    IF n = 0 THEN RatInt(1)
    ELSE LET h  == PowNat(b, n \div 2)
             sq == RatMul(h, h)
         IN  IF n % 2 = 1 THEN RatMul(sq, b) ELSE sq

PowRaises(b, n) ==
    RatIsZero(b) /\ n < 0

\* mutant of RatPow: the sign of the exponent is dropped
RatPowAbsExponent(b, n) ==
    PowNat(b, IF n < 0 THEN 0 - n ELSE n)

RatPow(b, n) ==
    IF n >= 0 THEN PowNat(b, n) ELSE RatInv(PowNat(b, -n))

(***************************************************************************)
(* The format specification ",.2f" of investments.py lines 22-24: the      *)
(* value rounded to two decimals (half to even), a minus sign for a        *)
(* negative value, the integer part grouped in threes by commas.           *)
(***************************************************************************)
DigitChars == <<"0", "1", "2", "3", "4", "5", "6", "7", "8", "9">>

RoundHalfEven(num, den) ==
    LET dm  == NatDivMod(num, den)
        c   == NatCmp(NatMulLimb(dm.r, 2), den)
        odd == Limb(dm.q, 1) % 2 = 1
    IN  IF c > 0 \/ (c = 0 /\ odd) THEN NatAdd(dm.q, NatOne) ELSE dm.q

\* |a| in cents, rounded
Cents(a) ==
    RoundHalfEven(NatMulLimb(a.num, 100), a.den)

LimbDigits(l) ==
    <<l \div 1000, (l \div 100) % 10, (l \div 10) % 10, l % 10>>

RECURSIVE NatDigitsPadded(_)
NatDigitsPadded(a) ==
    IF a = <<>> THEN <<>> ELSE NatDigitsPadded(Tail(a)) \o LimbDigits(a[1])

RECURSIVE StripZeros(_)
StripZeros(d) ==
    IF Len(d) > 3 /\ d[1] = 0 THEN StripZeros(Tail(d)) ELSE d

\* the decimal digits of a, most significant first, at least three of them
Digits(a) ==
    StripZeros(<<0, 0, 0>> \o NatDigitsPadded(a))

RECURSIVE Grouped(_, _)
Grouped(d, i) ==
    IF i > Len(d) THEN ""
    ELSE (IF i > 1 /\ (Len(d) - i + 1) % 3 = 0 THEN "," ELSE "")
             \o DigitChars[d[i] + 1] \o Grouped(d, i + 1)

FormatMoney(a) ==
    LET d == Digits(Cents(a))
        n == Len(d)
    IN  (IF a.neg THEN "-" ELSE "") \o Grouped(SubSeq(d, 1, n - 2), 1)
            \o "." \o DigitChars[d[n - 1] + 1] \o DigitChars[d[n] + 1]

(***************************************************************************)
(* Parameters.  investments.py fixes them (lines 2-5); the class           *)
(* InvestmentCalculator takes them from its caller.  A run of the model    *)
(* starts from any combination of the values below, the script's own among *)
(* them.  Rates are written in hundredths.                                 *)
(***************************************************************************)
DefaultInitialValue == 2000000
DefaultFeePercent == 1
DefaultYears == 15
DefaultReturnPercent == 5

MaxInitialValue == 2
MaxYears == 3
MaxNegYears == 2

Percent(p) ==
    RatOf(p, 100)

InitialValues ==
    (1 .. MaxInitialValue) \cup {DefaultInitialValue}

FeePercents ==
    {0, 40, 90, DefaultFeePercent}

ReturnPercents ==
    {-150, -100, -90, -50, -5, 0, 10, 50, DefaultReturnPercent}

YearsValues ==
    ((0 - MaxNegYears) .. MaxYears) \cup {DefaultYears}

VARIABLES
    initial_value,              \* line 2
    fee_percentage,             \* line 3
    years,                      \* line 4
    annual_return,              \* line 5
    future_value_no_fees,       \* line 8
    portfolio_value_with_fees,  \* lines 11, 13
    range_next,                 \* the next value of range(years), line 12
    year,                       \* the loop variable, line 12
    total_fees_paid,            \* line 16
    opportunity_cost,           \* line 19
    stdout,                     \* the lines printed, lines 22-24
    pc                          \* the statement to run next

vars ==
    <<initial_value, fee_percentage, years, annual_return,
      future_value_no_fees, portfolio_value_with_fees, range_next, year,
      total_fees_paid, opportunity_cost, stdout, pc>>

\* a name no statement has assigned yet
Unbound == [unbound |-> TRUE]

Init ==
    /\ initial_value \in {RatInt(v) : v \in InitialValues}
    /\ fee_percentage \in {Percent(f) : f \in FeePercents}
    /\ years \in YearsValues
    /\ annual_return \in {Percent(r) : r \in ReturnPercents}
    /\ future_value_no_fees = Unbound
    /\ portfolio_value_with_fees = Unbound
    /\ range_next = Unbound
    /\ year = Unbound
    /\ total_fees_paid = Unbound
    /\ opportunity_cost = Unbound
    /\ stdout = <<>>
    /\ pc = "line8"

(***************************************************************************)
(* The expressions of the script.                                          *)
(***************************************************************************)
\* 1 + annual_return (line 8)
GrowthBase(ret) ==
    RatAdd(RatInt(1), ret)

\* mutant of NoFeesValue: simple interest in place of compounding
NoFeesValueSimpleInterest(iv, ret, n) ==
    RatMul(iv, RatAdd(RatInt(1), RatMul(ret, RatInt(n))))

\* initial_value * (1 + annual_return) ** years (line 8)
NoFeesValue(iv, ret, n) ==
    RatMul(iv, RatPow(GrowthBase(ret), n))

\* mutant of Multiplier: the fee is left out
MultiplierFeeIgnored(ret, fee) ==
    RatAdd(RatInt(1), ret)

\* mutant of Multiplier: the fee is added
MultiplierFeeAdded(ret, fee) ==
    RatAdd(RatAdd(RatInt(1), ret), fee)

\* 1 + annual_return - fee_percentage (line 13)
Multiplier(ret, fee) ==
    RatSub(RatAdd(RatInt(1), ret), fee)

\* mutant of InitialPortfolio: the script's literal in place of the parameter
InitialPortfolioHardCoded(iv) ==
    RatInt(DefaultInitialValue)

\* the value the loop starts from (line 11)
InitialPortfolio(iv) ==
    iv

\* mutant of RangeHasNext: one turn too many
RangeHasNextInclusive(i, n) ==
    i <= n

\* range(years) has a next value (line 12)
RangeHasNext(i, n) ==
    i < n

\* mutant of TotalFeesExpr: the operands are swapped
TotalFeesExprSwapped(nofees, withfees) ==
    RatSub(withfees, nofees)

\* future_value_no_fees - portfolio_value_with_fees (line 16)
TotalFeesExpr(nofees, withfees) ==
    RatSub(nofees, withfees)

\* mutant of OpportunityExpr: the operands are swapped
OpportunityExprSwapped(nofees, withfees) ==
    RatSub(withfees, nofees)

\* future_value_no_fees - portfolio_value_with_fees (line 19)
OpportunityExpr(nofees, withfees) ==
    RatSub(nofees, withfees)

TotalFeesLine(x) ==
    "Total fees paid: $" \o FormatMoney(x)

OpportunityLine(x) ==
    "Opportunity cost (lost investment): $" \o FormatMoney(x)

NoFeesLine(x) ==
    "Future value without fees: $" \o FormatMoney(x)

(***************************************************************************)
(* The statements of the script, one action each.                          *)
(***************************************************************************)
\* line 8, the power is defined
CalcNoFees ==
    /\ pc = "line8"
    /\ ~PowRaises(GrowthBase(annual_return), years)
    /\ future_value_no_fees' = NoFeesValue(initial_value, annual_return, years)
    /\ pc' = "line11"
    /\ UNCHANGED <<initial_value, fee_percentage, years, annual_return,
                   portfolio_value_with_fees, range_next, year,
                   total_fees_paid, opportunity_cost, stdout>>

\* line 8, 0.0 ** negative: ZeroDivisionError ends the script
CalcNoFeesRaises ==
    /\ pc = "line8"
    /\ PowRaises(GrowthBase(annual_return), years)
    /\ pc' = "ZeroDivisionError"
    /\ UNCHANGED <<initial_value, fee_percentage, years, annual_return,
                   future_value_no_fees, portfolio_value_with_fees,
                   range_next, year, total_fees_paid, opportunity_cost,
                   stdout>>

\* line 11, and the range object of line 12
InitPortfolio ==
    /\ pc = "line11"
    /\ portfolio_value_with_fees' = InitialPortfolio(initial_value)
    /\ range_next' = 0
    /\ pc' = "line12"
    /\ UNCHANGED <<initial_value, fee_percentage, years, annual_return,
                   future_value_no_fees, year, total_fees_paid,
                   opportunity_cost, stdout>>

\* lines 12-13, one turn of the loop
LoopStep ==
    /\ pc = "line12"
    /\ RangeHasNext(range_next, years)
    /\ year' = range_next
    /\ range_next' = range_next + 1
    /\ portfolio_value_with_fees' =
           RatMul(portfolio_value_with_fees,
                  Multiplier(annual_return, fee_percentage))
    /\ UNCHANGED <<initial_value, fee_percentage, years, annual_return,
                   future_value_no_fees, total_fees_paid, opportunity_cost,
                   stdout, pc>>

\* line 12, the range is exhausted
LoopExit ==
    /\ pc = "line12"
    /\ ~RangeHasNext(range_next, years)
    /\ pc' = "line16"
    /\ UNCHANGED <<initial_value, fee_percentage, years, annual_return,
                   future_value_no_fees, portfolio_value_with_fees,
                   range_next, year, total_fees_paid, opportunity_cost,
                   stdout>>

\* line 16
CalcTotalFees ==
    /\ pc = "line16"
    /\ total_fees_paid' =
           TotalFeesExpr(future_value_no_fees, portfolio_value_with_fees)
    /\ pc' = "line19"
    /\ UNCHANGED <<initial_value, fee_percentage, years, annual_return,
                   future_value_no_fees, portfolio_value_with_fees,
                   range_next, year, opportunity_cost, stdout>>

\* line 19
CalcOpportunityCost ==
    /\ pc = "line19"
    /\ opportunity_cost' =
           OpportunityExpr(future_value_no_fees, portfolio_value_with_fees)
    /\ pc' = "line22"
    /\ UNCHANGED <<initial_value, fee_percentage, years, annual_return,
                   future_value_no_fees, portfolio_value_with_fees,
                   range_next, year, total_fees_paid, stdout>>

\* line 22
PrintTotalFees ==
    /\ pc = "line22"
    /\ stdout' = Append(stdout, TotalFeesLine(total_fees_paid))
    /\ pc' = "line23"
    /\ UNCHANGED <<initial_value, fee_percentage, years, annual_return,
                   future_value_no_fees, portfolio_value_with_fees,
                   range_next, year, total_fees_paid, opportunity_cost>>

\* line 23
PrintOpportunityCost ==
    /\ pc = "line23"
    /\ stdout' = Append(stdout, OpportunityLine(opportunity_cost))
    /\ pc' = "line24"
    /\ UNCHANGED <<initial_value, fee_percentage, years, annual_return,
                   future_value_no_fees, portfolio_value_with_fees,
                   range_next, year, total_fees_paid, opportunity_cost>>

\* line 24
PrintNoFees ==
    /\ pc = "line24"
    /\ stdout' = Append(stdout, NoFeesLine(future_value_no_fees))
    /\ pc' = "done"
    /\ UNCHANGED <<initial_value, fee_percentage, years, annual_return,
                   future_value_no_fees, portfolio_value_with_fees,
                   range_next, year, total_fees_paid, opportunity_cost>>

Next ==
    \/ CalcNoFees
    \/ CalcNoFeesRaises
    \/ InitPortfolio
    \/ LoopStep
    \/ LoopExit
    \/ CalcTotalFees
    \/ CalcOpportunityCost
    \/ PrintTotalFees
    \/ PrintOpportunityCost
    \/ PrintNoFees

Spec ==
    Init /\ [][Next]_vars

(***************************************************************************)
(* The class InvestmentCalculator of test_investments.py: the same         *)
(* computation as functions of the four parameters.  A method that raises  *)
(* has no value; Calc_raises tells when.                                   *)
(***************************************************************************)
InvestmentCalculator(iv, fee, n, ret) ==
    [initial_value |-> iv, fee_percentage |-> fee, years |-> n,
     annual_return |-> ret]

Calc_raises(self) ==
    PowRaises(RatAdd(RatInt(1), self.annual_return), self.years)

\* mutant of Calc_future_value_no_fees: simple interest
Calc_future_value_no_fees_simple(self) ==
    RatMul(self.initial_value,
           RatAdd(RatInt(1), RatMul(self.annual_return, RatInt(self.years))))

Calc_future_value_no_fees(self) ==
    RatMul(self.initial_value,
           RatPow(RatAdd(RatInt(1), self.annual_return), self.years))

RECURSIVE Calc_loop(_, _, _)
Calc_loop(self, i, portfolio_value) ==
    IF i < self.years
    THEN Calc_loop(self, i + 1,
                   RatMul(portfolio_value,
                          RatSub(RatAdd(RatInt(1), self.annual_return),
                                 self.fee_percentage)))
    ELSE portfolio_value

Calc_future_value_with_fees(self) ==
    Calc_loop(self, 0, self.initial_value)

\* mutant of Calc_total_fees_paid: the operands are swapped
Calc_total_fees_paid_swapped(self) ==
    RatSub(Calc_future_value_with_fees(self), Calc_future_value_no_fees(self))

Calc_total_fees_paid(self) ==
    RatSub(Calc_future_value_no_fees(self), Calc_future_value_with_fees(self))

Calc_opportunity_cost(self) ==
    RatSub(Calc_future_value_no_fees(self), Calc_future_value_with_fees(self))

\* total_fees_paid() / future_value_no_fees() raises ZeroDivisionError
FeeRatioRaises(self) ==
    RatIsZero(Calc_future_value_no_fees(self))

\* total_fees_paid() / future_value_no_fees()
FeeRatio(self) ==
    RatMul(Calc_total_fees_paid(self), RatInv(Calc_future_value_no_fees(self)))

(***************************************************************************)
(* Positions of a run, and the calculator built from the run's parameters. *)
(***************************************************************************)
InLoop ==
    pc = "line12"

LoopDone ==
    pc \in {"line16", "line19", "line22", "line23", "line24", "done"}

FeesComputed ==
    pc \in {"line19", "line22", "line23", "line24", "done"}

OpportunityComputed ==
    pc \in {"line22", "line23", "line24", "done"}

Finished ==
    pc = "done"

Raised ==
    pc = "ZeroDivisionError"

RunCalc ==
    InvestmentCalculator(initial_value, fee_percentage, years, annual_return)

IsDefaultRun ==
    /\ initial_value = RatInt(DefaultInitialValue)
    /\ fee_percentage = Percent(DefaultFeePercent)
    /\ years = DefaultYears
    /\ annual_return = Percent(DefaultReturnPercent)

\* initial_value * (1 + return_rate - fee_rate) ^ k, by exponentiation
ClosedFormWithFee(k) ==
    RatMul(initial_value,
           RatPow(RatSub(RatAdd(RatInt(1), annual_return), fee_percentage), k))

(***************************************************************************)
(* C1.  For non-negative years the loop of lines 11-13 takes exactly       *)
(* `years` turns; after k turns the portfolio is                           *)
(* initial_value * (1 + annual_return - fee_percentage) ^ k; the value it  *)
(* ends with, and the value future_value_with_fees() returns, is the       *)
(* closed form initial_value * (1 + annual_return - fee_percentage)^years. *)
(***************************************************************************)
C1_LoopIsClosedForm ==
    years >= 0 =>
        /\ (InLoop \/ LoopDone) =>
               /\ range_next \in 0 .. years
               /\ RatEq(portfolio_value_with_fees, ClosedFormWithFee(range_next))
        /\ LoopDone =>
               /\ range_next = years
               /\ RatEq(portfolio_value_with_fees, ClosedFormWithFee(years))
               /\ RatEq(Calc_future_value_with_fees(RunCalc),
                        ClosedFormWithFee(years))

C1_Witness ==
    /\ Finished
    /\ years = MaxYears
    /\ range_next = MaxYears
    /\ ~RatIsZero(fee_percentage)
    /\ ~RatEq(portfolio_value_with_fees, initial_value)

(***************************************************************************)
(* C2.  total_fees_paid is exactly future_value_no_fees minus              *)
(* portfolio_value_with_fees, and opportunity_cost is the identical value: *)
(* in the script's variables, in the two lines it prints, and between the  *)
(* calculator's total_fees_paid() and opportunity_cost().                  *)
(***************************************************************************)
C2_FeesAreTheDifference ==
    /\ FeesComputed =>
           total_fees_paid =
               RatSub(future_value_no_fees, portfolio_value_with_fees)
    /\ OpportunityComputed => opportunity_cost = total_fees_paid
    /\ Finished =>
           /\ stdout[1] = "Total fees paid: $" \o FormatMoney(total_fees_paid)
           /\ stdout[2] = "Opportunity cost (lost investment): $"
                              \o FormatMoney(total_fees_paid)
    /\ (years >= 0 /\ ~Calc_raises(RunCalc)) =>
           /\ Calc_total_fees_paid(RunCalc) =
                  RatSub(Calc_future_value_no_fees(RunCalc),
                         Calc_future_value_with_fees(RunCalc))
           /\ Calc_opportunity_cost(RunCalc) = Calc_total_fees_paid(RunCalc)

C2_Witness ==
    /\ Finished
    /\ years > 0
    /\ ~RatIsZero(total_fees_paid)
    /\ opportunity_cost = total_fees_paid
    /\ Len(stdout) = 3

C4_WitnessZeroYears ==
    /\ Finished
    /\ years = 0
    /\ ~RatIsZero(fee_percentage)
    /\ RatIsZero(total_fees_paid)

(***************************************************************************)
(* Relations between runs: the run's own result against the calculator's   *)
(* result for a changed parameter.                                         *)
(***************************************************************************)
\* the multiplier 1 + return - fee is not negative
MultiplierNonNegative(ret, fee) ==
    RatLeq(fee, RatAdd(RatInt(1), ret))

TotalAtFee(f) ==
    Calc_total_fees_paid(
        InvestmentCalculator(initial_value, Percent(f), years, annual_return))

TotalAtYears(n) ==
    Calc_total_fees_paid(
        InvestmentCalculator(initial_value, fee_percentage, n, annual_return))

DoubledCalc ==
    InvestmentCalculator(RatMul(RatInt(2), initial_value), fee_percentage,
                         years, annual_return)

(***************************************************************************)
(* C3, as claimed.  For years >= 0 and fee_percentage >= 0 (every fee of   *)
(* the model), whatever the return, the value with fees is at most the     *)
(* value without fees.                                                     *)
(***************************************************************************)
C3_Original ==
    (LoopDone /\ years >= 0 /\ ~fee_percentage.neg) =>
        RatLeq(portfolio_value_with_fees, future_value_no_fees)

(***************************************************************************)
(* C3, amended.  For years >= 0 and 0 <= fee_percentage <= 1 +             *)
(* annual_return (the multiplier of line 13 is not negative), the value    *)
(* with fees is at most the value without fees, for the script and for the *)
(* calculator.                                                             *)
(***************************************************************************)
C3_WithFeesAtMostNoFees ==
    (LoopDone /\ years >= 0 /\ ~fee_percentage.neg
         /\ MultiplierNonNegative(annual_return, fee_percentage)) =>
        /\ RatLeq(portfolio_value_with_fees, future_value_no_fees)
        /\ RatLeq(Calc_future_value_with_fees(RunCalc),
                  Calc_future_value_no_fees(RunCalc))

C3_Witness ==
    /\ Finished
    /\ years = MaxYears
    /\ annual_return.neg
    /\ ~RatIsZero(fee_percentage)
    /\ MultiplierNonNegative(annual_return, fee_percentage)
    /\ RatCmp(portfolio_value_with_fees, future_value_no_fees) < 0

(***************************************************************************)
(* C5, as claimed.  For years >= 0 and any two fees f1 <= f2 in [0, 1),    *)
(* whatever the return, the total fees at f2 are not less than at f1.      *)
(***************************************************************************)
C5_Original ==
    (Finished /\ years >= 0) =>
        \A f2 \in FeePercents :
            RatLeq(fee_percentage, Percent(f2)) =>
                RatLeq(total_fees_paid, TotalAtFee(f2))

(***************************************************************************)
(* C5, amended.  For years >= 0 and any two fees f1 <= f2 in [0, 1) with   *)
(* 1 + annual_return - f2 >= 0, the total fees at f2 are not less than at  *)
(* f1.                                                                     *)
(***************************************************************************)
C5_MonotoneInFee ==
    (Finished /\ years >= 0) =>
        \A f2 \in FeePercents :
            (/\ RatLeq(fee_percentage, Percent(f2))
             /\ MultiplierNonNegative(annual_return, Percent(f2))) =>
                RatLeq(total_fees_paid, TotalAtFee(f2))

C5_Witness ==
    /\ Finished
    /\ years = MaxYears
    /\ \E f2 \in FeePercents :
           /\ RatCmp(fee_percentage, Percent(f2)) < 0
           /\ ~RatIsZero(fee_percentage)
           /\ MultiplierNonNegative(annual_return, Percent(f2))
           /\ RatCmp(total_fees_paid, TotalAtFee(f2)) < 0

(***************************************************************************)
(* C6, as claimed.  For any fee in [0, 1), any return (negative ones       *)
(* too) and any 0 <= n1 <= n2, the total fees at n2 years are not less     *)
(* than at n1 years.                                                       *)
(***************************************************************************)
C6_Original ==
    (Finished /\ years >= 0) =>
        \A n1 \in 0 .. years :
            RatLeq(TotalAtYears(n1), total_fees_paid)

(***************************************************************************)
(* C6, amended.  For any fee in [0, 1), any return that is not negative    *)
(* and any 0 <= n1 <= n2, the total fees at n2 years are not less than at  *)
(* n1 years.                                                               *)
(***************************************************************************)
C6_MonotoneInYears ==
    (Finished /\ years >= 0 /\ ~annual_return.neg) =>
        \A n1 \in 0 .. years :
            RatLeq(TotalAtYears(n1), total_fees_paid)

C6_Witness ==
    /\ Finished
    /\ years = MaxYears
    /\ ~annual_return.neg
    /\ RatCmp(fee_percentage, annual_return) > 0
    /\ RatCmp(TotalAtYears(1), total_fees_paid) < 0

(***************************************************************************)
(* C7.  With fee_percentage >= 0 and annual_return - fee_percentage > 0,   *)
(* one more year never lowers the total fees: the total at n + 1 years is  *)
(* not less than the run's total at n years, for every n >= 0.             *)
(***************************************************************************)
C7_OneMoreYear ==
    (Finished /\ years >= 0 /\ ~fee_percentage.neg
         /\ RatCmp(annual_return, fee_percentage) > 0) =>
        RatLeq(total_fees_paid, TotalAtYears(years + 1))

C7_Witness ==
    /\ Finished
    /\ years = MaxYears
    /\ ~RatIsZero(fee_percentage)
    /\ RatCmp(annual_return, fee_percentage) > 0
    /\ RatCmp(total_fees_paid, TotalAtYears(years + 1)) < 0

(***************************************************************************)
(* C8, as claimed.  With the script's own parameters (2,000,000; 0.01;     *)
(* 15; 0.05) the third line printed reports $4,157,851.91 as the future    *)
(* value without fees.                                                     *)
(***************************************************************************)
C8_Original ==
    (Finished /\ IsDefaultRun) =>
        stdout[3] = "Future value without fees: $4,157,851.91"

(***************************************************************************)
(* C8, amended.  With the script's own parameters the future value         *)
(* without fees is 2,000,000 * 1.05^15, which to the cent is               *)
(* $4,157,856.36, and that is what the third line printed reports.         *)
(***************************************************************************)
C8_DefaultNoFeesValue ==
    (Finished /\ IsDefaultRun) =>
        /\ stdout[3] = "Future value without fees: $4,157,856.36"
        /\ FormatMoney(Calc_future_value_no_fees(RunCalc)) = "4,157,856.36"

C8_Witness ==
    /\ Finished
    /\ IsDefaultRun
    /\ Len(stdout) = 3
    /\ range_next = DefaultYears

(***************************************************************************)
(* C9.  Doubling initial_value, the rest fixed, doubles the total fees and *)
(* doubles the future value without fees, and leaves their ratio as it     *)
(* was: the same quotient, or no quotient in both cases when the value     *)
(* without fees is zero.                                                   *)
(***************************************************************************)
C9_ScaleInvariance ==
    (Finished /\ years >= 0) =>
        /\ RatEq(Calc_total_fees_paid(DoubledCalc),
                 RatMul(RatInt(2), total_fees_paid))
        /\ RatEq(Calc_future_value_no_fees(DoubledCalc),
                 RatMul(RatInt(2), future_value_no_fees))
        /\ FeeRatioRaises(DoubledCalc) = FeeRatioRaises(RunCalc)
        /\ ~FeeRatioRaises(RunCalc) =>
               /\ RatEq(FeeRatio(DoubledCalc), FeeRatio(RunCalc))
               /\ RatEq(FeeRatio(DoubledCalc),
                        RatMul(total_fees_paid, RatInv(future_value_no_fees)))

C9_Witness ==
    /\ Finished
    /\ years = MaxYears
    /\ ~RatIsZero(total_fees_paid)
    /\ ~FeeRatioRaises(RunCalc)
    /\ RatCmp(Calc_total_fees_paid(DoubledCalc), total_fees_paid) > 0

(***************************************************************************)
(* C10, as claimed.  Nothing is validated and no run ends in an error:     *)
(* with negative years the loop body runs zero times and the value without *)
(* fees is initial_value * (1 + annual_return) ^ years for every return,   *)
(* annual_return = -1 included.                                            *)
(***************************************************************************)
C10_Original ==
    /\ ~Raised
    /\ (LoopDone /\ years < 0) =>
           /\ range_next = 0
           /\ portfolio_value_with_fees = initial_value

(***************************************************************************)
(* C10, amended.  Nothing is validated.  With negative years and           *)
(* annual_return other than -1 the run completes: the loop body runs zero  *)
(* times, the value with fees stays initial_value and the value without    *)
(* fees is initial_value / (1 + annual_return) ^ (-years).  A run ends in  *)
(* an error exactly when years is negative and annual_return = -1: line 8  *)
(* raises ZeroDivisionError and nothing is printed.                        *)
(***************************************************************************)
C10_NegativeYears ==
    /\ Raised <=> (pc # "line8" /\ years < 0
                       /\ RatEq(annual_return, RatInt(-1)))
    /\ Raised => stdout = <<>>
    /\ (InLoop /\ years < 0) =>
           /\ range_next = 0
           /\ ~RangeHasNext(range_next, years)
    /\ (LoopDone /\ years < 0) =>
           /\ range_next = 0
           /\ year = Unbound
           /\ portfolio_value_with_fees = initial_value
           /\ RatEq(RatMul(future_value_no_fees,
                           PowNat(RatAdd(RatInt(1), annual_return), 0 - years)),
                    initial_value)
    /\ Finished => Len(stdout) = 3

C10_Witness ==
    /\ Finished
    /\ years = 0 - MaxNegYears
    /\ annual_return.neg
    /\ range_next = 0
    /\ ~RatEq(future_value_no_fees, initial_value)

C10_WitnessRaised ==
    /\ Raised
    /\ years < 0

=============================================================================
